---- MODULE Spec2Model ----
(***************************************************************************)
(* Model of the patch reader of src/plugins/diffeditor/diffutils.cpp:      *)
(* DiffUtils::readPatch, DiffUtils::readPatchWithPromise, readGitPatch and *)
(* readDiffPatch, driven through a QPromise<QList<FileData>> that another  *)
(* thread may cancel at any moment.                                        *)
(*                                                                         *)
(* A patch text is modelled by its file blocks, in text order.  A block    *)
(* records what the segmenters and the per-file parsers look at:           *)
(*   git      "none": the block has no "diff --git " line;                 *)
(*            "ok":   it has one and detectFileData accepts its header;    *)
(*            "bad":  it has one and detectFileData rejects its header;    *)
(*   unified  whether the block has a "--- "/"+++ " header pair;           *)
(*   hunks    its "@@ -a,b +c,d @@" hunks, each with the declared counts   *)
(*            (before, after) and the number of context, removed and added *)
(*            lines that follow the marker.                                *)
(* The patch variable stands for croppedPatch (diffutils.cpp:39).          *)
(***************************************************************************)
EXTENDS Naturals, Sequences, FiniteSets

\* Bounds of the model.
MaxSegments == 2
MaxHunks == 1

(***************************************************************************)
(* Inputs                                                                  *)
(***************************************************************************)
\* The spec's example hunk "@@ -1,1 +1,2 @@ -old +new1 +new2".
GoodHunk == [before |-> 1, after |-> 2, ctx |-> 0, rem |-> 1, add |-> 2]
\* The same lines under a marker that declares two lines before.
BadBeforeHunk == [before |-> 2, after |-> 2, ctx |-> 0, rem |-> 1, add |-> 2]
\* A context line and an added line under a marker that declares one line after.
BadAfterHunk == [before |-> 1, after |-> 1, ctx |-> 1, rem |-> 0, add |-> 1]

HunkSet == {GoodHunk, BadBeforeHunk, BadAfterHunk}

HunkSeqs == UNION {[1..n -> HunkSet] : n \in 0..MaxHunks}

\* Blocks of a git patch: every block starts with a "diff --git " line; a
\* block without "--- "/"+++ " lines (binary, mode change) has no hunk.
GitBlocks ==
    {[git |-> g, unified |-> FALSE, hunks |-> <<>>] : g \in {"ok", "bad"}}
    \cup {[git |-> g, unified |-> TRUE, hunks |-> h] : g \in {"ok", "bad"}, h \in HunkSeqs}

\* Blocks of a plain unified diff: no "diff --git " line anywhere.
PlainBlocks == {[git |-> "none", unified |-> TRUE, hunks |-> h] : h \in HunkSeqs}

\* Git patches (the one of zero blocks is a text with no header of either
\* kind, the empty text included) and plain unified diffs.
PatchSet ==
    UNION {[1..n -> GitBlocks] : n \in 0..MaxSegments}
    \cup UNION {[1..n -> PlainBlocks] : n \in 1..MaxSegments}

VARIABLES
    patch,          \* croppedPatch, the text being parsed
    mode,           \* "sync": DiffUtils::readPatch; "async": readPatchWithPromise called with a caller's promise
    pc,             \* position of the call
    canceled,       \* the promise's cancel flag, set by the future's owner
    results,        \* the results added to the promise, in order
    progressMin,    \* progress range of the promise
    progressMax,
    progressValue,  \* last progress value reported
    patches,        \* readGitPatch: QList<PatchInfo> patches
    i,              \* readGitPatch: index into startingPositions (1-based); readDiffPatch: number of the regexp match
    j,              \* readGitPatch: position of the range-for over patches (1-based); the code's i is j - 1
    fileDataList,   \* QList<FileData> fileDataList of the running reader
    readOk,         \* readDiffPatch: bool readOk
    ret,            \* value returned by DiffUtils::readPatch
    polledTrue,     \* history: some isCanceled() poll returned true
    cancelledAtStart, \* history: the promise was cancelled when readPatchWithPromise started
    ranGit,         \* history: readGitPatch was entered
    ranDiff,        \* history: readDiffPatch was entered
    gitAdded,       \* history: readGitPatch called addResult
    detected,       \* history: number of calls of detectFileData
    parsedAfterCancel, \* history: the parsing of a segment started while the promise was cancelled
    call,           \* number of the readPatch call on this text (1, or 2 when the call is repeated)
    firstRet,       \* value the first readPatch call returned, once a second one runs
    \* startAvdRecipe (src/plugins/android/androidutils.cpp)
    apc,            \* position of the recipe
    avdResult,      \* "running", or how startAvdRecipe ended: "success", "error"
    serialNumberStorage, \* Storage<QString> serialNumberStorage, "" when empty
    stopStorage,    \* waitForAvdRecipe: Storage<bool> stopStorage
    outputStorage,  \* Storage<QStringList> outputStorage of the running group, the lines of "adb devices"
    is32Storage,    \* startAvdAsyncRecipe: Storage<bool> is32Storage
    emu,            \* environment: the state of each emulator
    emuName,        \* environment: the AVD name each emulator's console reports
    emulatorExists, \* environment: AndroidConfig::emulatorToolPath().exists()
    lookupRes,      \* history: how the serialNumberRecipe of startAvdRecipe's condition ended
    launchRes,      \* history: how startAvdAsyncRecipe ended
    ranWait,        \* history: waitForAvdRecipe was started
    reported,       \* history: the serials whose console answered the requested AVD name to a socket task
    bootOkSerial,   \* history: the serial on which getprop init.svc.bootanim last answered "stopped"
    timedOut        \* history: a withTimeout of waitForAvdRecipe expired

\* The variables of startAvdRecipe.
avdVars == <<apc, avdResult, serialNumberStorage, stopStorage, outputStorage, is32Storage,
             emu, emuName, emulatorExists, lookupRes, launchRes, ranWait, reported,
             bootOkSerial, timedOut>>

\* The variables of the patch reader.
diffVars == <<patch, mode, pc, canceled, results, progressMin, progressMax, progressValue,
              patches, i, j, fileDataList, readOk, ret, polledTrue, cancelledAtStart,
              ranGit, ranDiff, gitAdded, detected, parsedAfterCancel, call, firstRet>>

\* The variables of a repeated readPatch call.
twiceVars == <<call, firstRet>>

vars == <<patch, mode, pc, canceled, results, progressMin, progressMax, progressValue,
          patches, i, j, fileDataList, readOk, ret, polledTrue, cancelledAtStart,
          ranGit, ranDiff, gitAdded, detected, parsedAfterCancel, twiceVars, avdVars>>

(***************************************************************************)
(* Pure helpers                                                            *)
(***************************************************************************)
HasGitHeader(b) == b.git # "none"
HasDiffHeader(b) == b.unified

\* readGitPatch: startingPositions, the starts of the "diff --git " headers,
\* in text order (here among the first n blocks of p).
RECURSIVE GitPositionsUpTo(_, _)
GitPositionsUpTo(p, n) ==
    IF n = 0 THEN <<>>
    ELSE IF HasGitHeader(p[n]) THEN Append(GitPositionsUpTo(p, n - 1), n)
    ELSE GitPositionsUpTo(p, n - 1)

GitStartingPositions(p) == GitPositionsUpTo(p, Len(p))

\* readDiffPatch: the successive matches of diffRegExp, the "--- "/"+++ "
\* pairs, in text order (here among the first n blocks of p).
RECURSIVE DiffPositionsUpTo(_, _)
DiffPositionsUpTo(p, n) ==
    IF n = 0 THEN <<>>
    ELSE IF HasDiffHeader(p[n]) THEN Append(DiffPositionsUpTo(p, n - 1), n)
    ELSE DiffPositionsUpTo(p, n - 1)

DiffStartingPositions(p) == DiffPositionsUpTo(p, Len(p))

\* A hunk whose lines agree with the counts its marker declares.
HunkOk(h) == h.ctx + h.rem = h.before /\ h.ctx + h.add = h.after

\* readChunks(patch, &lastChunkAtTheEndOfFile, &ok): the hunks read, and
\* whether every one of them was read successfully.
readChunks(hunks) ==
    [ok |-> \A n \in 1..Len(hunks) : HunkOk(hunks[n]), chunks |-> hunks]

\* detectFileData(fileDiff, &fileData, &remainingFileDiff) on the git segment
\* that starts at block idx.
detectFileData(p, idx) ==
    [ok |-> p[idx].git = "ok",
     fileData |-> [seg |-> idx, chunks |-> <<>>],
     remaining |-> p[idx].hunks]

\* readDiffHeaderAndChunks(headerAndChunks, &readOk) on the unified segment
\* that starts at block idx.
readDiffHeaderAndChunks(p, idx) ==
    [ok |-> readChunks(p[idx].hunks).ok,
     fileData |-> [seg |-> idx, chunks |-> readChunks(p[idx].hunks).chunks]]

\* "no value" of std::optional<QList<FileData>>.
NoValue == [has |-> FALSE, value |-> <<>>]
SomeValue(l) == [has |-> TRUE, value |-> l]

\* startAvdRecipe is not running.
AvdIdle ==
    /\ apc = "idle"
    /\ avdResult = "running"
    /\ serialNumberStorage = ""
    /\ stopStorage = FALSE
    /\ outputStorage = {}
    /\ is32Storage = FALSE
    /\ emu = [s \in {} |-> "absent"]
    /\ emuName = [s \in {} |-> ""]
    /\ emulatorExists = FALSE
    /\ lookupRes = "none"
    /\ launchRes = "none"
    /\ ranWait = FALSE
    /\ reported = {}
    /\ bootOkSerial = ""
    /\ timedOut = FALSE

(***************************************************************************)
(* Initial state: a promise just constructed (readPatch) or handed in by   *)
(* the caller, who may have cancelled it already.                          *)
(***************************************************************************)
Init ==
    /\ patch \in PatchSet
    /\ mode \in {"sync", "async"}
    /\ canceled \in BOOLEAN
    /\ mode = "sync" => ~canceled
    /\ pc = IF mode = "sync" THEN "start" ELSE "rpw"
    /\ results = <<>>
    /\ progressMin = 0
    /\ progressMax = 0
    /\ progressValue = 0
    /\ patches = <<>>
    /\ i = 1
    /\ j = 1
    /\ fileDataList = <<>>
    /\ readOk = FALSE
    /\ ret = NoValue
    /\ polledTrue = FALSE
    /\ cancelledAtStart = FALSE
    /\ ranGit = FALSE
    /\ ranDiff = FALSE
    /\ gitAdded = FALSE
    /\ detected = 0
    /\ parsedAfterCancel = FALSE
    /\ call = 1
    /\ firstRet = NoValue
    /\ AvdIdle

(***************************************************************************)
(* The future's owner                                                      *)
(***************************************************************************)
\* QFuture::cancel() from another thread, at any moment of a running call.
\* The flag is never reset.  readPatch's promise is local to the call and
\* its future is handed to nobody.
Cancel ==
    /\ mode = "async"
    /\ pc # "done"
    /\ ~canceled
    /\ canceled' = TRUE
    /\ UNCHANGED <<patch, mode, pc, results, progressMin, progressMax, progressValue,
                   patches, i, j, fileDataList, readOk, ret, polledTrue,
                   cancelledAtStart, ranGit, ranDiff, gitAdded, detected>>
    /\ UNCHANGED <<parsedAfterCancel, twiceVars, avdVars>>

(***************************************************************************)
(* DiffUtils::readPatch, up to the call of readPatchWithPromise            *)
(***************************************************************************)
\* QPromise<QList<FileData>> promise; promise.start();
readPatch_Call ==
    /\ mode = "sync"
    /\ pc = "start"
    /\ pc' = "rpw"
    /\ UNCHANGED <<patch, mode, canceled, results, progressMin, progressMax,
                   progressValue, patches, i, j, fileDataList, readOk, ret, polledTrue,
                   cancelledAtStart, ranGit, ranDiff, gitAdded, detected>>
    /\ UNCHANGED <<parsedAfterCancel, twiceVars, avdVars>>

(***************************************************************************)
(* DiffUtils::readPatchWithPromise                                         *)
(***************************************************************************)
\* readPatchWithPromise_Begin entering a readGitPatch whose patches list is
\* static: it is not empty again when a later call starts.
readPatchWithPromise_Begin_KeepsPatches ==
    /\ pc = "rpw"
    /\ progressMin' = 0
    /\ progressMax' = 1
    /\ progressValue' = 0
    /\ cancelledAtStart' = canceled
    /\ ranGit' = TRUE
    /\ i' = 1
    /\ pc' = "git_detect"
    /\ UNCHANGED <<patch, mode, canceled, results, patches, j, fileDataList, readOk, ret,
                   polledTrue, ranDiff, gitAdded, detected>>
    /\ UNCHANGED <<parsedAfterCancel, twiceVars, avdVars>>

\* promise.setProgressRange(0, 1); promise.setProgressValue(0); then the
\* call of readGitPatch, up to its first loop.
readPatchWithPromise_Begin ==
    /\ pc = "rpw"
    /\ progressMin' = 0
    /\ progressMax' = 1
    /\ progressValue' = 0
    /\ cancelledAtStart' = canceled
    /\ ranGit' = TRUE
    /\ patches' = <<>>
    /\ i' = 1
    /\ pc' = "git_detect"
    /\ UNCHANGED <<patch, mode, canceled, results, j, fileDataList, readOk, ret,
                   polledTrue, ranDiff, gitAdded, detected>>
    /\ UNCHANGED <<parsedAfterCancel, twiceVars, avdVars>>

(***************************************************************************)
(* readGitPatch                                                            *)
(***************************************************************************)
\* readGitPatch_Detect with "continue" in place of "return" when
\* detectFileData fails: the segment is dropped and the loop goes on.
readGitPatch_Detect_SkipBad ==
    /\ pc = "git_detect"
    /\ i <= Len(GitStartingPositions(patch))
    /\ IF canceled
       THEN /\ polledTrue' = TRUE
            /\ pc' = "after_git"
            /\ UNCHANGED <<patches, i, detected>>
       ELSE LET d == detectFileData(patch, GitStartingPositions(patch)[i]) IN
            /\ detected' = detected + 1
            /\ UNCHANGED polledTrue
            /\ patches' = IF d.ok THEN Append(patches, [patch |-> d.remaining,
                                                         fileData |-> d.fileData])
                           ELSE patches
            /\ i' = i + 1
            /\ pc' = "git_detect"
    /\ UNCHANGED <<patch, mode, canceled, results, progressMin, progressMax,
                   progressValue, j, fileDataList, readOk, ret, cancelledAtStart,
                   ranGit, ranDiff, gitAdded>>
    /\ UNCHANGED <<parsedAfterCancel, twiceVars, avdVars>>

\* One iteration of "for (int i = 0; i < count; i++)": the cancel poll, then
\* detectFileData on the segment; either may return from readGitPatch.
readGitPatch_Detect ==
    /\ pc = "git_detect"
    /\ i <= Len(GitStartingPositions(patch))
    /\ IF canceled
       THEN /\ polledTrue' = TRUE
            /\ pc' = "after_git"
            /\ UNCHANGED <<patches, i, detected>>
       ELSE LET d == detectFileData(patch, GitStartingPositions(patch)[i]) IN
            /\ detected' = detected + 1
            /\ UNCHANGED polledTrue
            /\ IF ~d.ok
               THEN /\ pc' = "after_git"
                    /\ UNCHANGED <<patches, i>>
               ELSE /\ patches' = Append(patches, [patch |-> d.remaining,
                                                     fileData |-> d.fileData])
                    /\ i' = i + 1
                    /\ pc' = "git_detect"
    /\ UNCHANGED <<patch, mode, canceled, results, progressMin, progressMax,
                   progressValue, j, fileDataList, readOk, ret, cancelledAtStart,
                   ranGit, ranDiff, gitAdded>>
    /\ UNCHANGED <<parsedAfterCancel, twiceVars, avdVars>>

\* readGitPatch_SetRange without promise.setProgressRange(0, patches.size()).
readGitPatch_SetRange_NoRange ==
    /\ pc = "git_detect"
    /\ i > Len(GitStartingPositions(patch))
    /\ IF patches = <<>>
       THEN /\ pc' = "after_git"
            /\ UNCHANGED <<j, fileDataList>>
       ELSE /\ fileDataList' = <<>>
            /\ j' = 1
            /\ pc' = "git_read"
    /\ UNCHANGED <<patch, mode, canceled, results, progressMin, progressMax,
                   progressValue, patches, i, readOk, ret, polledTrue,
                   cancelledAtStart, ranGit, ranDiff, gitAdded, detected>>
    /\ UNCHANGED <<parsedAfterCancel, twiceVars, avdVars>>

\* readGitPatch_SetRange without "if (patches.isEmpty()) return;".
readGitPatch_SetRange_NoEmptyCheck ==
    /\ pc = "git_detect"
    /\ i > Len(GitStartingPositions(patch))
    /\ progressMin' = 0
    /\ progressMax' = Len(patches)
    /\ progressValue' = 0
    /\ fileDataList' = <<>>
    /\ j' = 1
    /\ pc' = "git_read"
    /\ UNCHANGED <<patch, mode, canceled, results, patches, i, readOk, ret, polledTrue,
                   cancelledAtStart, ranGit, ranDiff, gitAdded, detected>>
    /\ UNCHANGED <<parsedAfterCancel, twiceVars, avdVars>>

\* After the first loop: "if (patches.isEmpty()) return;", then
\* promise.setProgressRange(0, patches.size()), which also puts the progress
\* value at the range's minimum, and the start of the second loop.
readGitPatch_SetRange ==
    /\ pc = "git_detect"
    /\ i > Len(GitStartingPositions(patch))
    /\ IF patches = <<>>
       THEN /\ pc' = "after_git"
            /\ UNCHANGED <<progressMin, progressMax, progressValue, j, fileDataList>>
       ELSE /\ progressMin' = 0
            /\ progressMax' = Len(patches)
            /\ progressValue' = 0
            /\ fileDataList' = <<>>
            /\ j' = 1
            /\ pc' = "git_read"
    /\ UNCHANGED <<patch, mode, canceled, results, patches, i, readOk, ret, polledTrue,
                   cancelledAtStart, ranGit, ranDiff, gitAdded, detected>>
    /\ UNCHANGED <<parsedAfterCancel, twiceVars, avdVars>>

\* readGitPatch_Read without "if (!readOk) return;": a file whose chunks
\* failed to read is appended like the others.
readGitPatch_Read_IgnoreReadOk ==
    /\ pc = "git_read"
    /\ j <= Len(patches)
    /\ IF canceled
       THEN /\ polledTrue' = TRUE
            /\ pc' = "after_git"
            /\ UNCHANGED <<progressValue, fileDataList, j>>
       ELSE LET r == readChunks(patches[j].patch) IN
            /\ progressValue' = j - 1
            /\ UNCHANGED polledTrue
            /\ fileDataList' = Append(fileDataList,
                                   [patches[j].fileData EXCEPT !.chunks = r.chunks])
            /\ j' = j + 1
            /\ pc' = "git_read"
    /\ UNCHANGED <<patch, mode, canceled, results, progressMin, progressMax, patches, i,
                   readOk, ret, cancelledAtStart, ranGit, ranDiff, gitAdded, detected>>
    /\ UNCHANGED <<parsedAfterCancel, twiceVars, avdVars>>

\* One iteration of the loop over patches: the cancel poll,
\* promise.setProgressValue(i++), readChunks, "if (!readOk) return;",
\* fileDataList.append(fileData).
readGitPatch_Read ==
    /\ pc = "git_read"
    /\ j <= Len(patches)
    /\ IF canceled
       THEN /\ polledTrue' = TRUE
            /\ pc' = "after_git"
            /\ UNCHANGED <<progressValue, fileDataList, j>>
       ELSE LET r == readChunks(patches[j].patch) IN
            /\ progressValue' = j - 1
            /\ UNCHANGED polledTrue
            /\ IF ~r.ok
               THEN /\ pc' = "after_git"
                    /\ UNCHANGED <<fileDataList, j>>
               ELSE /\ fileDataList' = Append(fileDataList,
                                   [patches[j].fileData EXCEPT !.chunks = r.chunks])
                    /\ j' = j + 1
                    /\ pc' = "git_read"
    /\ UNCHANGED <<patch, mode, canceled, results, progressMin, progressMax, patches, i,
                   readOk, ret, cancelledAtStart, ranGit, ranDiff, gitAdded, detected>>
    /\ UNCHANGED <<parsedAfterCancel, twiceVars, avdVars>>

\* promise.addResult(fileDataList), the last statement of readGitPatch.
readGitPatch_AddResult ==
    /\ pc = "git_read"
    /\ j > Len(patches)
    /\ results' = Append(results, fileDataList)
    /\ gitAdded' = TRUE
    /\ pc' = "after_git"
    /\ UNCHANGED <<patch, mode, canceled, progressMin, progressMax, progressValue,
                   patches, i, j, fileDataList, readOk, ret, polledTrue,
                   cancelledAtStart, ranGit, ranDiff, detected>>
    /\ UNCHANGED <<parsedAfterCancel, twiceVars, avdVars>>

(***************************************************************************)
(* readPatchWithPromise after readGitPatch, and readDiffPatch              *)
(***************************************************************************)
\* readPatchWithPromise_Fallback without the resultCount() test: readDiffPatch
\* runs after readGitPatch whatever readGitPatch did.
readPatchWithPromise_Fallback_Always ==
    /\ pc = "after_git"
    /\ ranDiff' = TRUE
    /\ fileDataList' = <<>>
    /\ i' = 1
    /\ readOk' = (Len(DiffStartingPositions(patch)) > 0)
    /\ pc' = IF Len(DiffStartingPositions(patch)) > 0 THEN "diff_loop" ELSE "diff_tail"
    /\ UNCHANGED <<patch, mode, canceled, results, progressMin, progressMax,
                   progressValue, patches, j, ret, polledTrue, cancelledAtStart,
                   ranGit, gitAdded, detected>>
    /\ UNCHANGED <<parsedAfterCancel, twiceVars, avdVars>>

\* "if (promise.future().resultCount() == 0) readDiffPatch(...)", up to
\* readDiffPatch's first match: readOk = false; if (diffMatch.hasMatch())
\* { readOk = true; ... do {.
readPatchWithPromise_Fallback ==
    /\ pc = "after_git"
    /\ IF Len(results) = 0
       THEN /\ ranDiff' = TRUE
            /\ fileDataList' = <<>>
            /\ i' = 1
            /\ readOk' = (Len(DiffStartingPositions(patch)) > 0)
            /\ pc' = IF Len(DiffStartingPositions(patch)) > 0
                     THEN "diff_loop" ELSE "diff_tail"
       ELSE /\ pc' = "after_diff"
            /\ UNCHANGED <<ranDiff, fileDataList, i, readOk>>
    /\ UNCHANGED <<patch, mode, canceled, results, progressMin, progressMax,
                   progressValue, patches, j, ret, polledTrue, cancelledAtStart,
                   ranGit, gitAdded, detected>>
    /\ UNCHANGED <<parsedAfterCancel, twiceVars, avdVars>>

\* readDiffPatch_Loop with the cancel poll moved into "if (lastPos >= 0)":
\* the first iteration does not poll.
readDiffPatch_Loop_PollAfterFirst ==
    /\ pc = "diff_loop"
    /\ IF i > 1 /\ canceled
       THEN /\ polledTrue' = TRUE
            /\ pc' = "after_diff"
            /\ UNCHANGED <<fileDataList, i, readOk>>
       ELSE LET pos == DiffStartingPositions(patch)
                r == readDiffHeaderAndChunks(patch, pos[i - 1])
            IN
            /\ UNCHANGED polledTrue
            /\ IF i > 1 /\ ~r.ok
               THEN /\ readOk' = FALSE
                    /\ pc' = "diff_tail"
                    /\ UNCHANGED <<fileDataList, i>>
               ELSE /\ fileDataList' = IF i > 1 THEN Append(fileDataList, r.fileData)
                                       ELSE fileDataList
                    /\ i' = i + 1
                    /\ pc' = IF i < Len(pos) THEN "diff_loop" ELSE "diff_tail"
                    /\ UNCHANGED readOk
    /\ UNCHANGED <<patch, mode, canceled, results, progressMin, progressMax,
                   progressValue, patches, j, ret, cancelledAtStart, ranGit, ranDiff,
                   gitAdded, detected>>
    /\ UNCHANGED <<parsedAfterCancel, twiceVars, avdVars>>

\* readDiffPatch_Loop without the cancel poll.
readDiffPatch_Loop_NoPoll ==
    /\ pc = "diff_loop"
    /\ LET pos == DiffStartingPositions(patch)
           r == readDiffHeaderAndChunks(patch, pos[i - 1])
       IN
       IF i > 1 /\ ~r.ok
       THEN /\ readOk' = FALSE
            /\ pc' = "diff_tail"
            /\ UNCHANGED <<fileDataList, i>>
       ELSE /\ fileDataList' = IF i > 1 THEN Append(fileDataList, r.fileData)
                               ELSE fileDataList
            /\ i' = i + 1
            /\ pc' = IF i < Len(pos) THEN "diff_loop" ELSE "diff_tail"
            /\ UNCHANGED readOk
    /\ UNCHANGED <<patch, mode, canceled, results, progressMin, progressMax,
                   progressValue, patches, j, ret, polledTrue, cancelledAtStart,
                   ranGit, ranDiff, gitAdded, detected>>
    /\ UNCHANGED <<parsedAfterCancel, twiceVars, avdVars>>

\* One iteration of the do-while over the matches of diffRegExp: the cancel
\* poll, then, from the second match on, readDiffHeaderAndChunks on the
\* segment that ends at this match ("if (!readOk) break;"), then the next
\* match and the loop condition.
readDiffPatch_Loop ==
    /\ pc = "diff_loop"
    /\ IF canceled
       THEN /\ polledTrue' = TRUE
            /\ pc' = "after_diff"
            /\ UNCHANGED <<fileDataList, i, readOk>>
       ELSE LET pos == DiffStartingPositions(patch)
                r == readDiffHeaderAndChunks(patch, pos[i - 1])
            IN
            /\ UNCHANGED polledTrue
            /\ IF i > 1 /\ ~r.ok
               THEN /\ readOk' = FALSE
                    /\ pc' = "diff_tail"
                    /\ UNCHANGED <<fileDataList, i>>
               ELSE /\ fileDataList' = IF i > 1 THEN Append(fileDataList, r.fileData)
                                       ELSE fileDataList
                    /\ i' = i + 1
                    /\ pc' = IF i < Len(pos) THEN "diff_loop" ELSE "diff_tail"
                    /\ UNCHANGED readOk
    /\ UNCHANGED <<patch, mode, canceled, results, progressMin, progressMax,
                   progressValue, patches, j, ret, cancelledAtStart, ranGit, ranDiff,
                   gitAdded, detected>>
    /\ UNCHANGED <<parsedAfterCancel, twiceVars, avdVars>>

\* readDiffPatch_Tail without "if (!readOk) return;": the list is added
\* whether or not every segment was read.
readDiffPatch_Tail_AddsAfterFailure ==
    /\ pc = "diff_tail"
    /\ LET pos == DiffStartingPositions(patch)
           r == readDiffHeaderAndChunks(patch, pos[Len(pos)])
       IN
       IF readOk
       THEN /\ readOk' = r.ok
            /\ fileDataList' = IF r.ok THEN Append(fileDataList, r.fileData)
                                ELSE fileDataList
            /\ results' = Append(results, fileDataList')
       ELSE /\ results' = Append(results, fileDataList)
            /\ UNCHANGED <<readOk, fileDataList>>
    /\ pc' = "after_diff"
    /\ UNCHANGED <<patch, mode, canceled, progressMin, progressMax, progressValue,
                   patches, i, j, ret, polledTrue, cancelledAtStart, ranGit, ranDiff,
                   gitAdded, detected>>
    /\ parsedAfterCancel' = (parsedAfterCancel \/ (readOk /\ canceled))
    /\ UNCHANGED <<twiceVars, avdVars>>

\* readDiffPatch_Tail that appends the last segment's FileData without
\* looking at readOk.
readDiffPatch_Tail_AppendUnchecked ==
    /\ pc = "diff_tail"
    /\ LET pos == DiffStartingPositions(patch)
           r == readDiffHeaderAndChunks(patch, pos[Len(pos)])
       IN
       IF readOk
       THEN /\ readOk' = TRUE
            /\ fileDataList' = Append(fileDataList, r.fileData)
            /\ results' = Append(results, Append(fileDataList, r.fileData))
       ELSE UNCHANGED <<readOk, fileDataList, results>>
    /\ pc' = "after_diff"
    /\ UNCHANGED <<patch, mode, canceled, progressMin, progressMax, progressValue,
                   patches, i, j, ret, polledTrue, cancelledAtStart, ranGit, ranDiff,
                   gitAdded, detected>>
    /\ parsedAfterCancel' = (parsedAfterCancel \/ (readOk /\ canceled))
    /\ UNCHANGED <<twiceVars, avdVars>>

\* After the loop: "if (readOk) {" readDiffHeaderAndChunks on the span from
\* the last match to the end of the text "}", then "if (!readOk) return;"
\* and promise.addResult(fileDataList).
readDiffPatch_Tail ==
    /\ pc = "diff_tail"
    /\ LET pos == DiffStartingPositions(patch)
           r == readDiffHeaderAndChunks(patch, pos[Len(pos)])
       IN
       IF readOk
       THEN /\ readOk' = r.ok
            /\ fileDataList' = IF r.ok THEN Append(fileDataList, r.fileData)
                                ELSE fileDataList
            /\ results' = IF r.ok THEN Append(results, Append(fileDataList, r.fileData))
                           ELSE results
       ELSE UNCHANGED <<readOk, fileDataList, results>>
    /\ pc' = "after_diff"
    /\ UNCHANGED <<patch, mode, canceled, progressMin, progressMax, progressValue,
                   patches, i, j, ret, polledTrue, cancelledAtStart, ranGit, ranDiff,
                   gitAdded, detected>>
    /\ parsedAfterCancel' = (parsedAfterCancel \/ (readOk /\ canceled))
    /\ UNCHANGED <<twiceVars, avdVars>>

(***************************************************************************)
(* Return                                                                  *)
(***************************************************************************)
\* readPatch_Return with the resultCount() test inverted.
readPatch_Return_Inverted ==
    /\ mode = "sync"
    /\ pc = "after_diff"
    /\ ret' = IF Len(results) # 0 THEN NoValue ELSE SomeValue(<<>>)
    /\ pc' = "done"
    /\ UNCHANGED <<patch, mode, canceled, results, progressMin, progressMax,
                   progressValue, patches, i, j, fileDataList, readOk, polledTrue,
                   cancelledAtStart, ranGit, ranDiff, gitAdded, detected>>
    /\ UNCHANGED <<parsedAfterCancel, twiceVars, avdVars>>

\* DiffUtils::readPatch: "if (promise.future().resultCount() == 0) return {};
\* return promise.future().result();" (the result at index 0).
readPatch_Return ==
    /\ mode = "sync"
    /\ pc = "after_diff"
    /\ ret' = IF Len(results) = 0 THEN NoValue ELSE SomeValue(results[1])
    /\ pc' = "done"
    /\ UNCHANGED <<patch, mode, canceled, results, progressMin, progressMax,
                   progressValue, patches, i, j, fileDataList, readOk, polledTrue,
                   cancelledAtStart, ranGit, ranDiff, gitAdded, detected>>
    /\ UNCHANGED <<parsedAfterCancel, twiceVars, avdVars>>

\* readPatchWithPromise returns to the caller that owns the promise.
readPatchWithPromise_Return ==
    /\ mode = "async"
    /\ pc = "after_diff"
    /\ pc' = "done"
    /\ UNCHANGED <<patch, mode, canceled, results, progressMin, progressMax,
                   progressValue, patches, i, j, fileDataList, readOk, ret, polledTrue,
                   cancelledAtStart, ranGit, ranDiff, gitAdded, detected>>
    /\ UNCHANGED <<parsedAfterCancel, twiceVars, avdVars>>

\* DiffUtils::readPatch called once more on the same text, after the first
\* call returned: a new local promise; what the first call left in the
\* locals of the readers is whatever the second call finds there.
readPatch_Again ==
    /\ mode = "sync"
    /\ pc = "done"
    /\ call = 1
    /\ call' = 2
    /\ firstRet' = ret
    /\ ret' = NoValue
    /\ results' = <<>>
    /\ canceled' = FALSE
    /\ progressMin' = 0
    /\ progressMax' = 0
    /\ progressValue' = 0
    /\ polledTrue' = FALSE
    /\ cancelledAtStart' = FALSE
    /\ ranGit' = FALSE
    /\ ranDiff' = FALSE
    /\ gitAdded' = FALSE
    /\ detected' = 0
    /\ parsedAfterCancel' = FALSE
    /\ pc' = "start"
    /\ UNCHANGED <<patch, mode, patches, i, j, fileDataList, readOk, avdVars>>

Next ==
    \/ Cancel
    \/ readPatch_Call
    \/ readPatchWithPromise_Begin
    \/ readGitPatch_Detect
    \/ readGitPatch_SetRange
    \/ readGitPatch_Read
    \/ readGitPatch_AddResult
    \/ readPatchWithPromise_Fallback
    \/ readDiffPatch_Loop
    \/ readDiffPatch_Tail
    \/ readPatch_Return
    \/ readPatchWithPromise_Return

Spec == Init /\ [][Next]_vars

NextTwice ==
    \/ Next
    \/ readPatch_Again

\* The reader, with readPatch called a second time on the same text.
SpecTwice == Init /\ [][NextTwice]_vars

TypeOK ==
    /\ patch \in PatchSet
    /\ mode \in {"sync", "async"}
    /\ pc \in {"start", "rpw", "git_detect", "git_read", "after_git", "diff_loop",
                "diff_tail", "after_diff", "done"}
    /\ canceled \in BOOLEAN
    /\ progressMin \in Nat /\ progressMax \in Nat /\ progressValue \in Nat
    /\ i \in 1..(MaxSegments + 1) /\ j \in 1..(MaxSegments + 1)
    /\ readOk \in BOOLEAN
    /\ detected \in 0..MaxSegments

(***************************************************************************)
(* startAvdRecipe of src/plugins/android/androidutils.cpp: the task tree    *)
(*   If (serialNumberRecipe || startAvdAsyncRecipe) >> Then {               *)
(*       waitForAvdRecipe } >> Else { errorItem }                           *)
(* run against emulators that start, boot and go away on their own.         *)
(***************************************************************************)
\* The avdName asked for, and the name of another AVD.
AvdName == "Pixel_7"
OtherAvdName == "Nexus_5"

\* The emulators of the environment, by adb serial number.
Serials == {"emulator-5554", "emulator-5556"}

\* The console port in a serial number: serialNumber.mid(index + 1).toInt(&ok).
PortOf(s) == IF s = "emulator-5554" THEN [ok |-> TRUE, port |-> 5554]
             ELSE IF s = "emulator-5556" THEN [ok |-> TRUE, port |-> 5556]
             ELSE [ok |-> FALSE, port |-> 0]

\* A line of "adb devices": whether it starts with "* daemon", and its text
\* up to the first tab, trimmed.
LineOf(s) == [daemon |-> FALSE, serial |-> s]
DaemonLine == [daemon |-> TRUE, serial |-> "* daemon started successfully"]
UsbLine == [daemon |-> FALSE, serial |-> "????????????"]
OtherLines == {DaemonLine, UsbLine}

\* An emulator adb lists.
Listed(s) == emu[s] \in {"starting", "booted"}

\* What AndroidConfig::devicesCommandOutputRecipe may store: the listed
\* emulators, with or without daemon log lines and other devices.
DevicesOutputs ==
    {{LineOf(s) : s \in {t \in Serials : Listed(t)}} \cup extra : extra \in SUBSET OtherLines}

\* serialNumber.startsWith("emulator")
StartsWithEmulator(serial) == serial \in Serials

\* serialNumberRecipe: onSocketSetup for one line of the output.
onSocketSetup(line) ==
    IF line.daemon
    THEN [result |-> "StopWithError", port |-> 0, current |-> ""]
    ELSE IF ~StartsWithEmulator(line.serial)
    THEN [result |-> "StopWithError", port |-> 0, current |-> ""]
    ELSE IF ~PortOf(line.serial).ok
    THEN [result |-> "StopWithError", port |-> 0, current |-> ""]
    ELSE [result |-> "Continue", port |-> PortOf(line.serial).port, current |-> line.serial]

\* onSocketDone without the comparison of the names.
onSocketDone_AnyName(avdName, response) ==
    IF response = "" THEN "Error" ELSE "Success"

\* serialNumberRecipe: onSocketDone; response is the line before the last
\* "OK" of the console's answer, trimmed, "" when there is no such line.
onSocketDone(avdName, response) ==
    IF response = "" THEN "Error"
    ELSE IF avdName # response THEN "Error"
    ELSE "Success"

\* The answer of the console behind a port, when the consoles of up answer.
ConsoleAnswer(up, port) ==
    IF \E s \in up : PortOf(s).port = port
    THEN emuName[CHOOSE s \in up : PortOf(s).port = port]
    ELSE ""

\* The socket tasks of serialNumberRecipe that end with success, by the
\* serial number each holds in currentSerialNumberStorage.
SocketWinners(up) ==
    {onSocketSetup(l).current : l \in
        {t \in outputStorage : /\ onSocketSetup(t).result = "Continue"
                               /\ onSocketDone(AvdName,
                                       ConsoleAnswer(up, onSocketSetup(t).port)) = "Success"}}

\* adbSelector
adbSelector(serialNumber) ==
    IF serialNumber = "????????????" THEN <<"-d">> ELSE <<"-s", serialNumber>>

\* isAvdBootedRecipe: onDone
isAvdBootedDone(result, output) == result = "Success" /\ output = "stopped"

\* What "adb <selector> shell getprop init.svc.bootanim" may answer.
GetPropAnswers(selector) ==
    {[result |-> "Error", output |-> ""]}
    \cup IF Len(selector) = 2 /\ selector[2] \in Serials /\ Listed(selector[2])
         THEN {[result |-> "Success",
                output |-> IF emu[selector[2]] = "booted" THEN "stopped" ELSE "running"]}
         ELSE {}

\* waitForAvdRecipe: onIsConnectedDone, without its writes.
onIsConnectedDone(output, serialNumber) ==
    IF \E line \in output : ~line.daemon /\ line.serial = serialNumber
    THEN "Error" ELSE "Success"

\* onWaitForBootedDone that does not look at stopStorage.
onWaitForBootedDone_Always(stop) == TRUE

\* waitForAvdRecipe: onWaitForBootedDone
onWaitForBootedDone(stop) == ~stop

\* The patch reader is not running.
DiffIdle ==
    /\ patch = <<>> /\ mode = "sync" /\ pc = "done" /\ canceled = FALSE
    /\ results = <<>> /\ progressMin = 0 /\ progressMax = 0 /\ progressValue = 0
    /\ patches = <<>> /\ i = 1 /\ j = 1 /\ fileDataList = <<>> /\ readOk = FALSE
    /\ ret = NoValue /\ polledTrue = FALSE /\ cancelledAtStart = FALSE
    /\ ranGit = FALSE /\ ranDiff = FALSE /\ gitAdded = FALSE /\ detected = 0
    /\ parsedAfterCancel = FALSE /\ call = 1 /\ firstRet = NoValue

\* startAvdRecipe is started with an empty serialNumberStorage, whatever
\* emulators run already.
InitAvd ==
    /\ DiffIdle
    /\ apc = "lookup_devices"
    /\ avdResult = "running"
    /\ serialNumberStorage = ""
    /\ stopStorage = FALSE
    /\ outputStorage = {}
    /\ is32Storage = FALSE
    /\ emu \in [Serials -> {"absent", "starting", "booted"}]
    /\ emuName \in [Serials -> {AvdName, OtherAvdName}]
    /\ emulatorExists \in BOOLEAN
    /\ lookupRes = "none"
    /\ launchRes = "none"
    /\ ranWait = FALSE
    /\ reported = {}
    /\ bootOkSerial = ""
    /\ timedOut = FALSE

\* An emulator starts, finishes booting, or goes away for good.
EmulatorStep ==
    /\ avdResult = "running"
    /\ \E s \in Serials :
         \E next \in {"starting", "booted", "gone"} :
            /\ \/ emu[s] = "absent" /\ next = "starting"
               \/ emu[s] = "starting" /\ next \in {"booted", "gone"}
               \/ emu[s] = "booted" /\ next = "gone"
            /\ emu' = [emu EXCEPT ![s] = next]
    /\ UNCHANGED <<apc, avdResult, serialNumberStorage, stopStorage, outputStorage,
                   is32Storage, emuName, emulatorExists, lookupRes, launchRes, ranWait,
                   reported, bootOkSerial, timedOut>>
    /\ UNCHANGED diffVars

\* serialNumberRecipe in the condition of startAvdRecipe:
\* AndroidConfig::devicesCommandOutputRecipe(outputStorage).  When the command
\* fails the recipe's group fails, and "||" goes on to startAvdAsyncRecipe.
startAvd_LookupDevices ==
    /\ apc = "lookup_devices"
    /\ \/ /\ \E out \in DevicesOutputs : outputStorage' = out
          /\ apc' = "lookup_sockets"
          /\ UNCHANGED lookupRes
       \/ /\ lookupRes' = "fail"
          /\ apc' = "launch_setup"
          /\ UNCHANGED outputStorage
    /\ UNCHANGED <<avdResult, serialNumberStorage, stopStorage, is32Storage, emu, emuName,
                   emulatorExists, launchRes, ranWait, reported, bootOkSerial, timedOut>>
    /\ UNCHANGED diffVars

\* serialNumberRecipe in the condition: the parallel, stopOnSuccess group of
\* socket tasks, one per line.  A task that succeeds has written
\* serialNumberStorage; with no task, or none that succeeds, the group ends
\* with error.  On success "||" is satisfied and Then starts
\* waitForAvdRecipe.
startAvd_LookupSockets ==
    /\ apc = "lookup_sockets"
    /\ \E up \in SUBSET {s \in Serials : Listed(s)} :
         IF SocketWinners(up) # {}
         THEN /\ \E w \in SocketWinners(up) : serialNumberStorage' = w
              /\ reported' = reported \cup {s \in up : LineOf(s) \in outputStorage
                                                      /\ emuName[s] = AvdName}
              /\ lookupRes' = "ok"
              /\ ranWait' = TRUE
              /\ apc' = "wait_devices"
         ELSE /\ lookupRes' = "fail"
              /\ apc' = "launch_setup"
              /\ UNCHANGED <<serialNumberStorage, reported, ranWait>>
    /\ outputStorage' = {}
    /\ UNCHANGED <<avdResult, stopStorage, is32Storage, emu, emuName, emulatorExists,
                   launchRes, bootOkSerial, timedOut>>
    /\ UNCHANGED diffVars

\* startAvdAsyncRecipe: onGroupSetup(onSetup).  StopWithError ends the
\* recipe with error, "||" fails and Else runs errorItem.
startAvdAsync_Setup ==
    /\ apc = "launch_setup"
    /\ IF emulatorExists
       THEN /\ apc' = "launch_getconf"
            /\ UNCHANGED <<launchRes, avdResult>>
       ELSE /\ launchRes' = "fail"
            /\ avdResult' = "error"
            /\ apc' = "done"
    /\ UNCHANGED <<serialNumberStorage, stopStorage, outputStorage, is32Storage, emu,
                   emuName, emulatorExists, lookupRes, ranWait, reported, bootOkSerial,
                   timedOut>>
    /\ UNCHANGED diffVars

\* startAvdAsyncRecipe: ProcessTask(onGetConfSetup, onGetConfDone).  Off a
\* 32-bit Linux host the task is skipped with success; on one, is32Storage is
\* set from the output of getconf, or to true when getconf fails; the done
\* handler returns true either way.
startAvdAsync_GetConf ==
    /\ apc = "launch_getconf"
    /\ \E linux32Host \in BOOLEAN :
         IF ~linux32Host
         THEN UNCHANGED is32Storage
         ELSE \E answer \in {[result |-> "Success", output |-> "32"],
                             [result |-> "Success", output |-> "64"],
                             [result |-> "Error", output |-> ""]} :
                is32Storage' = IF answer.result = "Success" THEN answer.output = "32"
                               ELSE TRUE
    /\ apc' = "launch_avd"
    /\ UNCHANGED <<avdResult, serialNumberStorage, stopStorage, outputStorage, emu, emuName,
                   emulatorExists, lookupRes, launchRes, ranWait, reported, bootOkSerial,
                   timedOut>>
    /\ UNCHANGED diffVars

\* A start of the emulator whose failure does not keep waitForAvdRecipe
\* from running.
startAvdAsync_StartDetached_WaitsAnyway ==
    /\ apc = "launch_avd"
    /\ \E started \in BOOLEAN :
         /\ launchRes' = IF started THEN "ok" ELSE "fail"
         /\ ranWait' = TRUE
         /\ apc' = "wait_devices"
         /\ UNCHANGED avdResult
    /\ UNCHANGED <<serialNumberStorage, stopStorage, outputStorage, is32Storage, emu,
                   emuName, emulatorExists, lookupRes, reported, bootOkSerial, timedOut>>
    /\ UNCHANGED diffVars

\* startAvdAsyncRecipe: AsyncTask<void>(onAvdSetup, onAvdDone, CallDoneIf::Error)
\* running startAvdDetached: a failed Process::startDetached cancels the
\* future and the task ends with error.  On success "||" is satisfied and
\* Then starts waitForAvdRecipe.
startAvdAsync_StartDetached ==
    /\ apc = "launch_avd"
    /\ \E started \in BOOLEAN :
         IF started
         THEN /\ launchRes' = "ok"
              /\ ranWait' = TRUE
              /\ apc' = "wait_devices"
              /\ UNCHANGED avdResult
         ELSE /\ launchRes' = "fail"
              /\ avdResult' = "error"
              /\ apc' = "done"
              /\ UNCHANGED ranWait
    /\ UNCHANGED <<serialNumberStorage, stopStorage, outputStorage, is32Storage, emu,
                   emuName, emulatorExists, lookupRes, reported, bootOkSerial, timedOut>>
    /\ UNCHANGED diffVars

\* waitForAvdRecipe, first Forever: the devices command of serialNumberRecipe.
\* When it fails the 100 ms TimeoutTask ends with error and the loop goes
\* round.
waitForAvd_SerialDevices ==
    /\ apc = "wait_devices"
    /\ \/ /\ \E out \in DevicesOutputs : outputStorage' = out
          /\ apc' = "wait_sockets"
       \/ /\ apc' = "wait_devices"
          /\ UNCHANGED outputStorage
    /\ UNCHANGED <<avdResult, serialNumberStorage, stopStorage, is32Storage, emu, emuName,
                   emulatorExists, lookupRes, launchRes, ranWait, reported, bootOkSerial,
                   timedOut>>
    /\ UNCHANGED diffVars

\* waitForAvdRecipe, first Forever: the socket tasks of serialNumberRecipe.
\* Success ends the Forever (stopOnSuccess) and the second Forever starts,
\* with a new stopStorage; otherwise the TimeoutTask and the next iteration.
waitForAvd_SerialSockets ==
    /\ apc = "wait_sockets"
    /\ \E up \in SUBSET {s \in Serials : Listed(s)} :
         IF SocketWinners(up) # {}
         THEN /\ \E w \in SocketWinners(up) : serialNumberStorage' = w
              /\ reported' = reported \cup {s \in up : LineOf(s) \in outputStorage
                                                      /\ emuName[s] = AvdName}
              /\ stopStorage' = FALSE
              /\ apc' = "wait_boot"
         ELSE /\ apc' = "wait_devices"
              /\ UNCHANGED <<serialNumberStorage, reported, stopStorage>>
    /\ outputStorage' = {}
    /\ UNCHANGED <<avdResult, is32Storage, emu, emuName, emulatorExists, lookupRes,
                   launchRes, ranWait, bootOkSerial, timedOut>>
    /\ UNCHANGED diffVars

\* waitForAvdRecipe, first Forever: withTimeout(30s) expires.
waitForAvd_SerialTimeout ==
    /\ apc \in {"wait_devices", "wait_sockets"}
    /\ timedOut' = TRUE
    /\ outputStorage' = {}
    /\ avdResult' = "error"
    /\ apc' = "done"
    /\ UNCHANGED <<serialNumberStorage, stopStorage, is32Storage, emu, emuName,
                   emulatorExists, lookupRes, launchRes, ranWait, reported, bootOkSerial>>
    /\ UNCHANGED diffVars

\* waitForAvdRecipe, second Forever: isAvdBootedRecipe.  Its success ends the
\* Forever (stopOnSuccess), whose onGroupDone(onWaitForBootedDone) decides
\* the result; otherwise the TimeoutTask and then the devices group.
waitForAvd_IsAvdBooted ==
    /\ apc = "wait_boot"
    /\ \E answer \in GetPropAnswers(adbSelector(serialNumberStorage)) :
         IF isAvdBootedDone(answer.result, answer.output)
         THEN /\ bootOkSerial' = serialNumberStorage
              /\ avdResult' = IF onWaitForBootedDone(stopStorage) THEN "success" ELSE "error"
              /\ apc' = "done"
         ELSE /\ apc' = "wait_connected_devices"
              /\ UNCHANGED <<bootOkSerial, avdResult>>
    /\ UNCHANGED <<serialNumberStorage, stopStorage, outputStorage, is32Storage, emu,
                   emuName, emulatorExists, lookupRes, launchRes, ranWait, reported,
                   timedOut>>
    /\ UNCHANGED diffVars

\* waitForAvdRecipe, second Forever: the devices command of the inner Group.
\* When it fails the Group fails without calling onIsConnectedDone
\* (CallDoneIf::Success) and the loop goes round.
waitForAvd_ConnectedDevices ==
    /\ apc = "wait_connected_devices"
    /\ \/ /\ \E out \in DevicesOutputs : outputStorage' = out
          /\ apc' = "wait_connected_done"
       \/ /\ apc' = "wait_boot"
          /\ UNCHANGED outputStorage
    /\ UNCHANGED <<avdResult, serialNumberStorage, stopStorage, is32Storage, emu, emuName,
                   emulatorExists, lookupRes, launchRes, ranWait, reported, bootOkSerial,
                   timedOut>>
    /\ UNCHANGED diffVars

\* waitForAvdRecipe, second Forever: onGroupDone(onIsConnectedDone).  Error
\* (the serial is listed) fails the inner Group and the loop goes round;
\* Success (after serialNumberStorage->clear() and *stopStorage = true) ends
\* the Forever, whose onGroupDone(onWaitForBootedDone) decides the result.
waitForAvd_IsConnectedDone ==
    /\ apc = "wait_connected_done"
    /\ IF onIsConnectedDone(outputStorage, serialNumberStorage) = "Error"
       THEN /\ apc' = "wait_boot"
            /\ UNCHANGED <<serialNumberStorage, stopStorage, avdResult>>
       ELSE /\ serialNumberStorage' = ""
            /\ stopStorage' = TRUE
            /\ avdResult' = IF onWaitForBootedDone(TRUE) THEN "success" ELSE "error"
            /\ apc' = "done"
    /\ outputStorage' = {}
    /\ UNCHANGED <<is32Storage, emu, emuName, emulatorExists, lookupRes, launchRes,
                   ranWait, reported, bootOkSerial, timedOut>>
    /\ UNCHANGED diffVars

\* waitForAvdRecipe, second Forever: withTimeout(120s) expires.
waitForAvd_BootTimeout ==
    /\ apc \in {"wait_boot", "wait_connected_devices", "wait_connected_done"}
    /\ timedOut' = TRUE
    /\ outputStorage' = {}
    /\ avdResult' = "error"
    /\ apc' = "done"
    /\ UNCHANGED <<serialNumberStorage, stopStorage, is32Storage, emu, emuName,
                   emulatorExists, lookupRes, launchRes, ranWait, reported, bootOkSerial>>
    /\ UNCHANGED diffVars

\* The values the state of startAvdRecipe takes.
AvdTypeOK ==
    /\ apc \in {"lookup_devices", "lookup_sockets", "launch_setup", "launch_getconf",
                "launch_avd", "wait_devices", "wait_sockets", "wait_boot",
                "wait_connected_devices", "wait_connected_done", "done"}
    /\ avdResult \in {"running", "success", "error"}
    /\ serialNumberStorage \in Serials \cup {""}
    /\ stopStorage \in BOOLEAN
    /\ outputStorage \subseteq {LineOf(s) : s \in Serials} \cup OtherLines
    /\ is32Storage \in BOOLEAN
    /\ emu \in [Serials -> {"absent", "starting", "booted", "gone"}]
    /\ emuName \in [Serials -> {AvdName, OtherAvdName}]
    /\ emulatorExists \in BOOLEAN
    /\ lookupRes \in {"none", "ok", "fail"}
    /\ launchRes \in {"none", "ok", "fail"}
    /\ ranWait \in BOOLEAN
    /\ reported \subseteq Serials
    /\ bootOkSerial \in Serials \cup {""}
    /\ timedOut \in BOOLEAN
    /\ (apc = "done") <=> (avdResult # "running")

NextAvd ==
    \/ EmulatorStep
    \/ startAvd_LookupDevices
    \/ startAvd_LookupSockets
    \/ startAvdAsync_Setup
    \/ startAvdAsync_GetConf
    \/ startAvdAsync_StartDetached
    \/ waitForAvd_SerialDevices
    \/ waitForAvd_SerialSockets
    \/ waitForAvd_SerialTimeout
    \/ waitForAvd_IsAvdBooted
    \/ waitForAvd_ConnectedDevices
    \/ waitForAvd_IsConnectedDone
    \/ waitForAvd_BootTimeout

SpecAvd == InitAvd /\ [][NextAvd]_vars

(***************************************************************************)
(* What the claims speak of                                                *)
(***************************************************************************)
\* The call has passed the test that follows readGitPatch.
AfterFallbackTest == pc \in {"diff_loop", "diff_tail", "after_diff", "done"}

GitHeaderCount == Len(GitStartingPositions(patch))
DiffHeaderCount == Len(DiffStartingPositions(patch))

\* The git segment that starts at block idx fails to parse: its header is
\* rejected, or its chunks do not read.
GitSegmentFails(idx) ==
    \/ ~detectFileData(patch, idx).ok
    \/ ~readChunks(detectFileData(patch, idx).remaining).ok

SomeGitSegmentFails ==
    \E k \in 1..GitHeaderCount : GitSegmentFails(GitStartingPositions(patch)[k])

\* The text read as a unified diff, segment by segment: whether every
\* segment parses, and the FileData of the segments in header order.
DiffParses ==
    /\ DiffHeaderCount > 0
    /\ \A k \in 1..DiffHeaderCount :
          readDiffHeaderAndChunks(patch, DiffStartingPositions(patch)[k]).ok

DiffList ==
    [k \in 1..DiffHeaderCount |->
        readDiffHeaderAndChunks(patch, DiffStartingPositions(patch)[k]).fileData]

\* C1 (as stated): readDiffPatch runs only when zero git headers were found;
\* with at least one "diff --git " header readDiffPatch is never run.
C1_DiffOnlyWithoutGitHeader == ranDiff => GitHeaderCount = 0

\* C1 (amended): readGitPatch is always attempted first, and readDiffPatch
\* runs exactly when readGitPatch added no result: always when no git header
\* was found, and also when headers were found but readGitPatch returned
\* early (rejected header, unreadable chunks, cancellation).
C1_DiffIffGitAddedNothing ==
    /\ ranDiff => ranGit /\ ~gitAdded
    /\ AfterFallbackTest => (ranDiff <=> ~gitAdded)
    /\ AfterFallbackTest /\ GitHeaderCount = 0 => ranDiff
    /\ gitAdded => GitHeaderCount > 0

C1_Witness == pc = "done" /\ ranDiff /\ GitHeaderCount > 0 /\ ~polledTrue

\* C2 (as stated): for a git patch of several segments of which at least one
\* fails to parse, readPatch returns no value.
C2_FailedGitSegmentNoValue ==
    (mode = "sync" /\ pc = "done" /\ GitHeaderCount > 1 /\ SomeGitSegmentFails)
        => ~ret.has

\* C2 (amended): for such a patch readGitPatch adds no result, so no list
\* built by the git path is returned; the text then goes to readDiffPatch, and
\* readPatch returns no value unless the text parses as a unified diff, in
\* which case it returns the unified-diff list of the "--- "/"+++ " segments.
C2_FailedGitSegmentLeftToFallback ==
    (mode = "sync" /\ pc = "done" /\ GitHeaderCount > 1 /\ SomeGitSegmentFails)
        => /\ ~gitAdded
           /\ ranDiff
           /\ ret.has <=> DiffParses
           /\ ret.has => ret.value = DiffList

C2_Witness ==
    /\ mode = "sync" /\ pc = "done" /\ GitHeaderCount > 1 /\ SomeGitSegmentFails
    /\ ret.has /\ Len(ret.value) > 1

\* C3: when the promise is already cancelled as readPatchWithPromise starts,
\* the call adds no result and the progress value is 0 when it ends, for
\* every patch text.
C3_CancelledAtStartNoResult ==
    cancelledAtStart => results = <<>> /\ progressValue = 0

C3_Witness ==
    /\ pc = "done" /\ cancelledAtStart
    /\ GitHeaderCount = 0 /\ DiffHeaderCount > 0 /\ DiffParses

\* C4: once an isCanceled() poll has returned true no result is on the
\* promise, and none is added afterwards, the unified-diff fallback included.
C4_PolledTrueNoResult == polledTrue => results = <<>>

C4_Witness ==
    /\ pc = "done" /\ polledTrue /\ ~cancelledAtStart
    /\ ~gitAdded /\ ranDiff /\ GitHeaderCount > 0 /\ DiffParses

\* C5: readPatch is readPatchWithPromise run to completion on a promise that
\* is never cancelled; it returns no value exactly when the run added no
\* result, and otherwise the single list the run added.
C5_ReadPatchReturnsTheResult ==
    (mode = "sync" /\ pc = "done")
        => /\ ~canceled /\ ~polledTrue
           /\ ranGit
           /\ ~ret.has <=> Len(results) = 0
           /\ ret.has => Len(results) = 1 /\ ret.value = results[1]

C5_Witness == mode = "sync" /\ pc = "done" /\ ret.has /\ Len(ret.value) > 1

\* The segments of the path that produced the result: the "diff --git "
\* segments for a list added by readGitPatch, the "--- "/"+++ " segments for
\* a list added by readDiffPatch.
SegmentsOfResult == IF gitAdded THEN GitStartingPositions(patch)
                    ELSE DiffStartingPositions(patch)

GitRangeSet ==
    \/ pc = "git_read"
    \/ /\ pc \in {"after_git", "diff_loop", "diff_tail", "after_diff", "done"}
       /\ patches # <<>>
       /\ Len(patches) = GitHeaderCount

C8_ProgressCountsFinishedSegments ==
    /\ pc = "git_read" => progressValue = Len(fileDataList)
    /\ (pc = "done" /\ results # <<>>) => progressValue = Len(results[1])

\* The positions, among the git segments, of those whose header
\* detectFileData rejects.
BadHeaders == {k \in 1..GitHeaderCount : ~detectFileData(patch, GitStartingPositions(patch)[k]).ok}

FirstBadHeader == CHOOSE k \in BadHeaders : \A m \in BadHeaders : k <= m

\* C9 (as stated): a git segment whose header detectFileData rejects is
\* dropped and parsing goes on with the remaining segments: a run that is
\* not cancelled examines every git segment.
C9_BadHeaderDropped ==
    (pc = "done" /\ ~polledTrue) => detected = GitHeaderCount

\* C9 (amended): a git segment whose header detectFileData rejects makes
\* readGitPatch return at once: no later git segment is examined, nothing is
\* dropped, readGitPatch adds no result, and the whole text goes to the
\* unified-diff fallback.
C9_BadHeaderAbortsGitPath ==
    BadHeaders # {}
        => /\ ~gitAdded
           /\ detected <= FirstBadHeader
           /\ Len(patches) < FirstBadHeader
           /\ (pc = "done" /\ ~polledTrue) => (detected = FirstBadHeader /\ ranDiff)

C9_Witness ==
    /\ pc = "done" /\ ~polledTrue
    /\ BadHeaders # {} /\ FirstBadHeader < GitHeaderCount
    /\ detected = FirstBadHeader

\* C10: in every Hunk of every FileData of a result, context lines plus
\* removed lines equal the declared before-count and context lines plus added
\* lines equal the declared after-count; a segment with a hunk that breaks
\* this fails to parse and is in no result.
C10_HunkCountsAgree ==
    \A r \in 1..Len(results) : \A k \in 1..Len(results[r]) :
        /\ results[r][k].chunks = patch[results[r][k].seg].hunks
        /\ \A n \in 1..Len(results[r][k].chunks) :
              LET h == results[r][k].chunks[n] IN
              /\ h.ctx + h.rem = h.before
              /\ h.ctx + h.add = h.after

C10_Witness ==
    /\ results # <<>>
    /\ \A k \in 1..Len(results[1]) : Len(results[1][k].chunks) > 0
    /\ Len(results[1]) > 1

\* C11: a parse never adds an empty list as its result; when no file segment
\* is found (no git header and no unified header) the call ends with no
\* result and readPatch returns no value, as it does for a text that fails to
\* parse.
C11_NoEmptyListResult ==
    /\ \A r \in 1..Len(results) : results[r] # <<>>
    /\ (pc = "done" /\ GitHeaderCount = 0 /\ DiffHeaderCount = 0)
          => (results = <<>> /\ (mode = "sync" => ~ret.has))

C11_Witness ==
    /\ pc = "done" /\ mode = "sync" /\ patch = <<>> /\ ~ret.has /\ ranGit /\ ranDiff

C13_NoSegmentParsedAfterCancel == ~parsedAfterCancel

\* C14: a run of readPatchWithPromise adds at most one result: readDiffPatch
\* runs only while the promise holds no result, and each reader adds at most
\* once, as its last action.
C14_AtMostOneResult ==
    /\ Len(results) <= 1
    /\ pc \in {"diff_loop", "diff_tail"} => Len(results) = 0
    /\ pc \in {"git_detect", "git_read"} => Len(results) = 0
    /\ gitAdded => Len(results) = 1

C14_Witness == pc = "done" /\ Len(results) = 1 /\ ranDiff /\ GitHeaderCount > 0

\* The positions of the parts of startAvdRecipe.
InLookup == apc \in {"lookup_devices", "lookup_sockets"}
InLaunch == apc \in {"launch_setup", "launch_getconf", "launch_avd"}
InWait == apc \in {"wait_devices", "wait_sockets", "wait_boot",
                   "wait_connected_devices", "wait_connected_done"}

\* C15: startAvdRecipe looks for a running emulator first; the launch is
\* attempted only after the lookup failed; waitForAvdRecipe runs if and only
\* if the lookup or the launch succeeded; when both fail the recipe ends with
\* error and has never waited.
C15_LookupThenLaunchThenWait ==
    /\ InLookup => (lookupRes = "none" /\ launchRes = "none" /\ ~ranWait)
    /\ (InLaunch \/ launchRes # "none") => lookupRes = "fail"
    /\ InWait => ranWait
    /\ ~InLookup => (ranWait <=> (lookupRes = "ok" \/ launchRes = "ok"))
    /\ (lookupRes = "fail" /\ launchRes = "fail")
          => (avdResult = "error" /\ apc = "done" /\ ~ranWait)

\* The lookup failed, the emulator tool was there and could not be started.
C15_Witness ==
    /\ lookupRes = "fail" /\ launchRes = "fail" /\ emulatorExists
    /\ avdResult = "error" /\ ~ranWait

\* C16: the recipe ends with success only with a serial number in
\* serialNumberStorage that was resolved for the requested name, names an
\* emulator whose console reported that name, and is the serial whose
\* getprop init.svc.bootanim query succeeded with "stopped".
C16_SuccessMeansResolvedAndBooted ==
    avdResult = "success" =>
        /\ ranWait
        /\ serialNumberStorage # ""
        /\ serialNumberStorage \in reported
        /\ serialNumberStorage \in Serials
        /\ emuName[serialNumberStorage] = AvdName
        /\ bootOkSerial = serialNumberStorage
        /\ emu[serialNumberStorage] = "booted"
        /\ ~stopStorage

\* Success after a launch, with an emulator of another name around.
C16_Witness ==
    /\ avdResult = "success" /\ launchRes = "ok" /\ serialNumberStorage # ""
    /\ \E s \in Serials : emuName[s] = OtherAvdName /\ Listed(s)

\* The output of adb devices has a line, not of the daemon, for the serial.
SerialListedInOutput == LineOf(serialNumberStorage) \in outputStorage

\* C17: in the boot-wait loop, once the devices output no longer lists the
\* serial (lines of the daemon aside) while the emulator is not booted,
\* serialNumberStorage is cleared, the loop stops with no further boot query
\* and the recipe ends with error; while the serial is listed the loop goes
\* back to the boot query.
C17_LostSerialStopsBootWait ==
    /\ [](stopStorage => (apc = "done" /\ avdResult = "error" /\ serialNumberStorage = ""))
    /\ [][(apc = "wait_connected_done" /\ apc' # apc /\ ~timedOut')
            => IF SerialListedInOutput
               THEN /\ apc' = "wait_boot"
                    /\ serialNumberStorage' = serialNumberStorage
                    /\ ~stopStorage'
                    /\ avdResult' = "running"
               ELSE /\ serialNumberStorage' = ""
                    /\ stopStorage'
                    /\ apc' = "done"
                    /\ avdResult' = "error"]_vars

\* The emulator went away during the boot wait, and only daemon lines or
\* other devices were left in the output.
C17_Witness ==
    /\ stopStorage /\ apc = "done" /\ avdResult = "error" /\ ~timedOut
    /\ serialNumberStorage = "" /\ bootOkSerial = ""
    /\ \E s \in reported : emu[s] = "gone"

====
